---- MODULE Spec2Model ----
(***************************************************************************)
(* Model of the batch worker of the Shorts video editor:                   *)
(*   utils/video_processor.py   VideoProcessor.process_videos_bulk and the *)
(*                              per-job functions it calls                 *)
(*   utils/narasi_processing.py process_narasi_mode and its frame loops    *)
(* Frames are abstracted to the index of the source frame they come from,  *)
(* their size, the template frame and the mask they were composited with.  *)
(* Durations are rationals with denominator TDen.                          *)
(***************************************************************************)
EXTENDS Integers, Sequences, FiniteSets, TLC

\* ---------------------------------------------------------------- bounds
MaxFiles == 2       \* files selected for one batch
MaxFrames == 2      \* frames a source (video, GIF) can hold
MaxGif == 2         \* frames of an animated template
MaxTnum == 7        \* largest narration duration, in 1/TDen seconds
MaxFps == 2         \* largest integer frame rate of the concatenated clip
TDen == 4           \* durations are multiples of 1/TDen seconds
NumPixels == 1      \* pixels of a template frame
NumCodecs == 2      \* entries of gpu_config.get_safe_fourcc_codes()
MaxSide == 3        \* the sides of a previewed frame are 360, ..., 360 * MaxSide
CropSteps == 2      \* the crop sliders are sampled at CropSteps + 1 values
PercentSteps == 2   \* the position sliders are sampled at PercentSteps + 1 values
MaxTicks == 3       \* longest audio track and longest target, in ticks
MaxLines == 15      \* most lines smart_text_wrap returns for a file name
SizeSteps == 2      \* the text size slider is sampled at SizeSteps + 1 values
NumDirs == 2        \* directories on the disk; the last one holds no media
NumStems == 2       \* file names without extension in a directory

\* ------------------------------------------------------ program constants
FRAME_WIDTH == 1080
FRAME_HEIGHT == 1920

Canvas == <<FRAME_WIDTH, FRAME_HEIGHT>>
FrameSizes == {Canvas, <<640, 480>>}

Colours == {"key", "other"}
Pixels == 1..NumPixels
TemplateFrames == [Pixels -> Colours]

SeqsUpTo(S, n) == UNION {[1..k -> S] : k \in 0..n}

\* A template file: frames = <<>> is a file that cannot be decoded.
Templates ==
    {[isGif |-> FALSE, frames |-> fs] : fs \in SeqsUpTo(TemplateFrames, 1)}
    \cup {[isGif |-> TRUE, frames |-> fs] : fs \in SeqsUpTo(TemplateFrames, MaxGif)}
NoTemplate == [isGif |-> FALSE, frames |-> <<>>]

FileKinds == {"video", "gif"}
FileLists == SeqsUpTo(FileKinds, MaxFiles)

AudioModes == {"original", "background", "dual"}
AudioFolders == {"none", "empty", "files"}
NoAudio == [enabled |-> FALSE, dual_audio_enabled |-> FALSE, folder_path |-> "none"]

\* ------------------------------------------------------- pure functions

\* green_screen_detection.create_green_screen_mask: true where the pixel
\* has the key colour.
create_green_screen_mask(frame) == [p \in DOMAIN frame |-> frame[p] = "key"]

\* np.sum(mask)
MaskSum(mask) == Cardinality({p \in DOMAIN mask : mask[p]})

NoMask == [p \in {} |-> FALSE]

\* Mutant of MaskIsEmpty: the emptiness check never fires.
MaskIsEmpty_Never(mask) == FALSE

\* np.sum(template_mask) == 0
MaskIsEmpty(mask) == MaskSum(mask) = 0

\* round(n / d) as Python rounds: to the nearest integer, ties to even.
RoundHalfEven(n, d) ==
    LET q == n \div d
        r == n % d
    IN  IF 2 * r < d THEN q
        ELSE IF 2 * r > d THEN q + 1
        ELSE IF q % 2 = 0 THEN q ELSE q + 1

\* Mutant of TargetFrames: the product is rounded instead of truncated.
TargetFrames_Rounded(tnum, rate) == RoundHalfEven(tnum * rate, TDen)

\* int(target_duration * fps): truncation toward zero of a non-negative
\* product; target_duration = tnum / TDen.
TargetFrames(tnum, rate) == (tnum * rate) \div TDen

\* Mutant of LoopCondition: one pass too many.
LoopCondition_OffByOne(fw, tf) == fw <= tf

\* while frames_written < target_frames
LoopCondition(fw, tf) == fw < tf

\* cap.set(cv2.CAP_PROP_POS_FRAMES, 0)
RestartPos == 0

\* Mutant of ReadWithLoop: an exhausted source is not restarted.
ReadWithLoop_NoRestart(p, n) ==
    IF p < n THEN [ret |-> TRUE, frame |-> p, pos |-> p + 1, restarted |-> FALSE]
    ELSE [ret |-> FALSE, frame |-> 0, pos |-> p, restarted |-> FALSE]

\* Mutant of ReadWithLoop: after the restart the frame is not read again and
\* the last frame is processed a second time.
ReadWithLoop_StaleFrame(p, n) ==
    IF p < n THEN [ret |-> TRUE, frame |-> p, pos |-> p + 1, restarted |-> FALSE]
    ELSE [ret |-> n > 0, frame |-> IF n > 0 THEN n - 1 ELSE 0, pos |-> RestartPos,
          restarted |-> TRUE]

\* cap.read() with the restart of the narasi loops: the frame returned and
\* the position of the capture afterwards; ret = FALSE when also the read
\* after the restart yields nothing.
ReadWithLoop(p, n) ==
    IF p < n THEN [ret |-> TRUE, frame |-> p, pos |-> p + 1, restarted |-> FALSE]
    ELSE IF RestartPos < n
         THEN [ret |-> TRUE, frame |-> RestartPos, pos |-> RestartPos + 1,
               restarted |-> TRUE]
         ELSE [ret |-> FALSE, frame |-> 0, pos |-> RestartPos, restarted |-> TRUE]

\* Mutant of GifFrameIndex: the template stays on its last frame instead of
\* cycling.
GifFrameIndex_NoCycle(fw, count) == IF fw < count THEN fw ELSE count - 1

\* gif_frame_index = frames_written % gif_frame_count
GifFrameIndex(fw, count) == fw % count

\* process_frame_with_green_screen / process_blur_frame live outside the
\* sources at hand; the size of what they return is left open between the
\* canvas and the size of the frame they were given.
CompositorOutputSizes(srcSize0) == {Canvas, srcSize0}

\* add_text_overlay draws on a copy of the frame (or returns the frame
\* itself when drawing fails); the size is unchanged.
add_text_overlay(frame) == [frame EXCEPT !.text = TRUE]

\* Mutant of EnsureSize: the frame is written as composited.
EnsureSize_NoResize(size) == size

\* if processed_frame.shape[:2] != (H, W): processed_frame = cv2.resize(...)
EnsureSize(size) == IF size # Canvas THEN Canvas ELSE size

\* One frame as handed to out.write.
ProcessedFrame(src, tmpl, keyed, keys, csize, withText) ==
    LET composed == [src |-> src, tmpl |-> tmpl, keyed |-> keyed, keys |-> keys,
                     size |-> csize, text |-> FALSE]
        overlaid == IF withText THEN add_text_overlay(composed) ELSE composed
    IN  [overlaid EXCEPT !.size = EnsureSize(@)]

\* Mutant of NextIndexAfterException: the exception ends the batch loop.
NextIndexAfterException_Break(idx, n) == n

\* except Exception ... continue: the index of the job tried after job idx
\* raised, in a batch of n jobs.
NextIndexAfterException(idx, n) == idx + 1

\* ------------------------------------------- get_gpu_video_writer, order

\* gpu_config.get_safe_fourcc_codes(): the candidate encoders, by position.
FourccOptions == 1..NumCodecs
\* The "final fallback" attempt with mp4v that follows the list.
FallbackCodec == NumCodecs + 1
\* The "last resort" writer, returned without looking at isOpened().
LastResortCodec == NumCodecs + 2

\* The attempt that follows a failed attempt k: the next entry of the list,
\* after the list the fallback, after the fallback the last resort.
NextCandidate(k) == k + 1

\* Mutant of ReleaseFailed: the writer that did not open is kept.
ReleaseFailed_Leaks(writers, k) == writers
\* out.release() of the writer of attempt k.
ReleaseFailed(writers, k) == writers \ {k}

\* What the construction of a cv2.VideoWriter can do.
WriterOutcomes == {"opened", "closed", "raise"}

\* Mutant of ReleaseWriter: the writer stays open.
ReleaseWriter_Skipped(open) == open

\* out.release() after the frame loop: the writer is no longer held and the
\* silent video is complete.
ReleaseWriter(open) == FALSE

\* ------------------------------------------------------ update_progress

\* gui.update_progress(current, total, file_name) as logged: name is the
\* position of the file whose name is carried, 0 for "Selesai!"; completed
\* is the number of jobs that had ended when the call was made.
update_progress(current, total, name, completed) ==
    [current |-> current, total |-> total, name |-> name,
     completed |-> completed]

\* Mutant of JobProgress: the job is reported as one more job done.
JobProgress_OneBased(idx, total, completed) ==
    update_progress(idx + 1, total, idx + 1, completed)
\* self.gui.update_progress(i, total_files, file_name), the first statement
\* of the pass of the batch loop for the file at 0-based position idx.
JobProgress(idx, total, completed) ==
    update_progress(idx, total, idx + 1, completed)

\* ------------------------------------------------- audio mode handlers

AudioWidgets ==
    {"select_audio_folder_btn", "background_volume_scale",
     "original_volume_scale"}

\* The widgets as constructed: state=tk.DISABLED.
AllDisabled == [x \in AudioWidgets |-> "disabled"]

\* The three values a handler leaves behind.
AudioGui(enabled, dual, w) ==
    [audio_enabled |-> enabled, dual_audio_enabled |-> dual, widgets |-> w]

\* Mutant of on_audio_mode_change: the slider of the original volume is
\* left as it was.
on_audio_mode_change_KeepsOriginalScale(enabled, dual, w) ==
    IF enabled
    THEN AudioGui(enabled, FALSE,
             [w EXCEPT !["select_audio_folder_btn"] = "normal",
                       !["background_volume_scale"] = "normal"])
    ELSE AudioGui(enabled, FALSE,
             [w EXCEPT !["select_audio_folder_btn"] = "disabled",
                       !["background_volume_scale"] = "disabled"])

\* on_audio_mode_change, run after a radio button has set audio_enabled.
on_audio_mode_change(enabled, dual, w) ==
    IF enabled
    THEN AudioGui(enabled, FALSE,
             [w EXCEPT !["select_audio_folder_btn"] = "normal",
                       !["background_volume_scale"] = "normal",
                       !["original_volume_scale"] = "disabled"])
    ELSE AudioGui(enabled, FALSE,
             [w EXCEPT !["select_audio_folder_btn"] = "disabled",
                       !["background_volume_scale"] = "disabled",
                       !["original_volume_scale"] = "disabled"])

\* Mutant of on_dual_audio_change: background-only stays selected.
on_dual_audio_change_KeepsBackground(enabled, dual, w) ==
    IF dual
    THEN AudioGui(enabled, dual, [x \in AudioWidgets |-> "normal"])
    ELSE AudioGui(enabled, dual, w)

\* on_dual_audio_change, run after the checkbox has set dual_audio_enabled.
on_dual_audio_change(enabled, dual, w) ==
    IF dual
    THEN AudioGui(FALSE, dual, [x \in AudioWidgets |-> "normal"])
    ELSE AudioGui(enabled, dual,
             IF ~enabled
             THEN [x \in AudioWidgets |-> "disabled"]
             ELSE [w EXCEPT !["original_volume_scale"] = "disabled"])

\* ------------------------------------- _update_blur_preview_from_path

preview_width == 160
preview_height == 285

\* Sizes (w, h) of the first frame of the previewed file.
PreviewSources == {<<360 * a, 360 * b>> : a, b \in 1..MaxSide}
\* Values of the crop sliders, from_=0 to=40.
CropValues == {(40 * k) \div CropSteps : k \in 0..CropSteps}
\* Values of the position sliders, 0 to 100.
PercentValues == {(100 * k) \div PercentSteps : k \in 0..PercentSteps}

Min(a, b) == IF a < b THEN a ELSE b
Max(a, b) == IF a > b THEN a ELSE b

\* int(h * crop / 100)
CropPx(h, crop) == (h * crop) \div 100

\* "Calculate video size": current_ratio > 9/16 fixes the height at
\* int(preview_height * 0.6), otherwise the width at int(preview_width * 0.7);
\* the other side follows the ratio of the cropped frame, truncated.
InsetSize(cropped_w, cropped_h) ==
    IF 16 * cropped_w > 9 * cropped_h
    THEN LET new_height == (preview_height * 6) \div 10
         IN  [w |-> (new_height * cropped_w) \div cropped_h, h |-> new_height]
    ELSE LET new_width == (preview_width * 7) \div 10
         IN  [w |-> new_width, h |-> (new_width * cropped_h) \div cropped_w]

\* int(percent / 100 * max) if max > 0 else 0, then max(0, min(offset, max))
InsetOffset(percent, max) ==
    LET offset == IF max > 0 THEN (percent * max) \div 100 ELSE 0
    IN  Max(0, Min(offset, max))

\* result[y:y+h, x:x+w] = resized_video: the slice of the canvas ends at the
\* canvas border, and the assignment raises when its shape is not that of
\* the inset.
InsetAssignable(offset, dim, canvas_dim) ==
    Min(offset + dim, canvas_dim) - Min(offset, canvas_dim) = dim

\* The geometry _update_blur_preview_from_path computes for a first frame
\* of size w x h, and whether the preview image is shown or the except
\* branch writes "Error: ..." on the label.
BlurPreview(w, h, crop_top, crop_bottom, x_percent, y_percent) ==
    LET cropped_h == h - CropPx(h, crop_top) - CropPx(h, crop_bottom)
        size == InsetSize(w, cropped_h)
        x_offset == InsetOffset(x_percent, preview_width - size.w)
        y_offset == InsetOffset(y_percent, preview_height - size.h)
    IN  [shown |-> IF /\ InsetAssignable(x_offset, size.w, preview_width)
                      /\ InsetAssignable(y_offset, size.h, preview_height)
                   THEN "image" ELSE "error",
         src |-> <<w, h>>,
         new_width |-> size.w, new_height |-> size.h,
         x_offset |-> x_offset, y_offset |-> y_offset]

\* No preview has been computed.
NoPreview == [shown |-> "none"]

\* ----------------------------------------------- settings sections

Modes == {"greenscreen", "blur", "narasi"}

\* The frames and labels on_mode_change packs and forgets.
Sections ==
    {"template_section", "text_frame", "blur_frame", "narasi_section",
     "narasi_text_frame", "audio_note_label", "narasi_note_label"}

\* w.pack(...) and w.pack_forget() for each w of ws.
Pack(packed, ws) == [w \in Sections |-> IF w \in ws THEN TRUE ELSE packed[w]]
PackForget(packed, ws) ==
    [w \in Sections |-> IF w \in ws THEN FALSE ELSE packed[w]]

show_greenscreen_settings(packed) ==
    Pack(packed, {"template_section", "text_frame"})
hide_greenscreen_settings(packed) ==
    PackForget(packed, {"template_section", "text_frame"})
show_blur_settings(packed) == Pack(packed, {"blur_frame"})
hide_blur_settings(packed) == PackForget(packed, {"blur_frame"})
show_narasi_settings(packed) ==
    Pack(packed, {"template_section", "narasi_section", "narasi_text_frame"})
hide_narasi_settings(packed) ==
    PackForget(packed, {"narasi_section", "narasi_text_frame"})

\* on_mode_change: the branch of the mode, then the two notes.
on_mode_change(mode, packed) ==
    LET settings ==
            CASE mode = "greenscreen" ->
                   hide_narasi_settings(hide_blur_settings(
                       show_greenscreen_settings(packed)))
              [] mode = "blur" ->
                   hide_narasi_settings(show_blur_settings(
                       hide_greenscreen_settings(packed)))
              [] OTHER ->
                   hide_blur_settings(show_narasi_settings(packed))
        notes == {"audio_note_label", "narasi_note_label"}
    IN  IF mode = "narasi" THEN Pack(settings, notes)
        ELSE PackForget(settings, notes)

\* The sections as the constructors leave them: every frame packs itself
\* when it is created.
AllPacked == [w \in Sections |-> TRUE]

\* --------------------------------------------------- file selection

Dirs == 1..NumDirs
Stems == 1..NumStems
Exts == {"mp4", "gif"}

\* A file: os.path.dirname, and os.path.basename as stem and extension.
Files == [dir : Dirs, stem : Stems, ext : Exts]

\* Every directory but the last holds a video and a GIF of every stem.
DirFiles(d) == IF d = NumDirs THEN {} ELSE {f \in Files : f.dir = d}

\* "" for folder_path.
NoFolder == 0

\* The order of a directory listing: by name.
FileIndex(f) == 2 * f.stem + (IF f.ext = "mp4" THEN 0 ELSE 1)

Listed(sq) ==
    \A k \in 1..(Len(sq) - 1) : FileIndex(sq[k]) < FileIndex(sq[k + 1])

\* What filedialog.askopenfilenames returns when the dialog is accepted:
\* files of one directory.
FileDialogResults ==
    {sq \in UNION {SeqsUpTo(DirFiles(d), MaxFiles) : d \in Dirs} :
        sq # <<>> /\ Listed(sq)}

\* The files of directory d with extension e, as a listing.
ListOf(d, e) ==
    IF DirFiles(d) = {} THEN <<>>
    ELSE [k \in 1..NumStems |-> [dir |-> d, stem |-> k, ext |-> e]]

get_video_files(d) == ListOf(d, "mp4")
get_gif_files(d) == ListOf(d, "gif")

\* The three fields a selection handler writes.
Selection(folder, files, single) ==
    [folder_path |-> folder, selected_files |-> files,
     is_single_file_mode |-> single]

\* select_folder with the dialog's answer; "" when it was cancelled.
select_folder(path, sel) ==
    IF path # NoFolder THEN Selection(path, <<>>, FALSE) ELSE sel

\* Mutant of select_files: the folder selected before is kept.
select_files_KeepsFolder(files, sel) ==
    IF files # <<>> THEN Selection(sel.folder_path, files, TRUE) ELSE sel

\* select_files with the dialog's answer; empty when it was cancelled.
select_files(files, sel) ==
    IF files # <<>> THEN Selection(NoFolder, files, TRUE) ELSE sel

\* get_files_to_process: (directory, name) of every file of the batch.
get_files_to_process(sel) ==
    IF sel.is_single_file_mode /\ sel.selected_files # <<>>
    THEN sel.selected_files
    ELSE IF sel.folder_path # NoFolder
         THEN get_video_files(sel.folder_path) \o get_gif_files(sel.folder_path)
         ELSE <<>>

\* The file job k of a batch writes: the output folder is made under the
\* directory of the batch's first file, the name is "edited_<stem>.mp4".
output_path(files, k) ==
    [output_folder |-> files[1].dir, edited |-> files[k].stem, ext |-> "mp4"]

\* No dialog has been accepted.
NothingAccepted == [fn |-> "none"]

\* ------------------------------------------------- audio alignment

\* An audio track of n ticks; its samples are numbered from 0.
AudioTrack(n) == [k \in 1..n |-> k - 1]

AudioTracks == {AudioTrack(n) : n \in 1..MaxTicks}
TargetDurations == 0..MaxTicks

Duration(track) == Len(track)

\* Mutant of subclip: the track is handed on whole.
subclip_Whole(track, t_end) == track

\* clip.subclip(0, t_end) of moviepy: the part of the clip before t_end.
subclip(track, t_end) == SubSeq(track, 1, t_end)

\* clip.loop(duration=d) of moviepy: the clip repeated from its start until
\* d is filled.
audio_loop(track, d) == [k \in 1..d |-> track[((k - 1) % Len(track)) + 1]]

\* "Adjust audio to match target duration" of add_audio_to_narasi_video.
AlignNarasiAudio(audio_clip, target_duration) ==
    IF Duration(audio_clip) > target_duration
    THEN subclip(audio_clip, target_duration)
    ELSE IF Duration(audio_clip) < target_duration
         THEN audio_loop(audio_clip, target_duration)
         ELSE audio_clip

\* "Loop or trim audio to match video duration" of
\* handle_gif_audio_processing.
AlignGifAudio(background_audio, video_duration) ==
    IF Duration(background_audio) < video_duration
    THEN audio_loop(background_audio, video_duration)
    ELSE subclip(background_audio, video_duration)

\* No track has been aligned.
NotAligned == [fn |-> "none"]

\* -------------------------------------------------- text placement

\* The text size sliders run from 20 to 120, the position sliders from 0
\* to 100 (PercentValues).
TextSizes == {20 + (100 * k) \div SizeSteps : k \in 0..SizeSteps}

\* len(lines) of the wrapped name: greedy wrapping gives at least one line
\* and has no upper limit.
LineCounts == 1..MaxLines

\* int(x) of Python for the quotient a / b, b > 0: towards zero.
TruncDiv(a, b) == IF a >= 0 THEN a \div b ELSE -((-a) \div b)

\* total_text_height = len(lines) * line_height, line_height = size + 10
total_text_height(lines, size) == lines * (size + 10)

\* base_y of add_text_overlay: the percentage of the free height, then
\* max(20, min(base_y, FRAME_HEIGHT - total_text_height - 20)).
base_y(y_position, lines, size) ==
    LET free == FRAME_HEIGHT - total_text_height(lines, size)
        y == TruncDiv(y_position * (free - 40), 100)
    IN  Max(20, Min(y, free - 20))

\* No text has been placed.
NotPlaced == [lines |-> 0]

\* handle_audio_processing has not been called.
NotHandled == [called |-> FALSE]

\* ------------------------------------------------------------- state
VARIABLES
    pc,               \* where the worker thread is
    status,           \* last text written to gui.status_label
    processing_mode,  \* gui.get_processing_mode()
    files_to_process, \* gui.get_files_to_process(), by kind of file
    template,         \* content of gui.background_image_path
    has_template,     \* background_image_path is not ""
    template_mask,    \* mask built from the template's first frame
    mask_built,       \* create_green_screen_mask has run for the batch
    text_enabled,     \* text_settings['enabled']
    audio_settings,   \* gui.get_audio_settings()
    i,                \* jobs of the batch already left behind
    successful_files, \* successful_files
    attempted,        \* indices of the jobs attempted, in order
    results,          \* per job: was the source empty, how did it end
    srcLen,           \* frames the current source holds
    srcSize,          \* size of the current source's frames
    pos,              \* position of the capture / frame iterator
    reads,            \* frames obtained from the current source
    frames_written,   \* frames_written / frame_count of the current job
    target_frames,    \* target_frames of the narasi loop
    target_duration,  \* narration duration, in 1/TDen seconds
    fps,              \* int(cap.get(CAP_PROP_FPS)) of the concatenated clip
    emitted,          \* frames written by the current job
    composited,       \* a frame has been composited since the batch started
    loopExit,         \* how the last frame loop ended
    audio_raised,     \* add_audio_to_narasi_video hit its except branch
    output,           \* what the last finished job left at output_path
    capOpen,          \* the job's VideoCapture is held
    outOpen,          \* the job's VideoWriter is held
    audio_on_open_writer, \* audio was handled while the job's writer was held
    codec,            \* get_gpu_video_writer: the attempt that comes next
    tried,            \* get_gpu_video_writer: the attempts made, in order
    held,             \* writers created by failed attempts, not released
    openedBy,         \* the attempts whose writer opened
    outIsOpened,      \* out.isOpened() of the job's writer
    temp_output,      \* the '_temp.mp4' file of the current job exists
    temp_dir,         \* the temporary directory of the narasi job exists
    other_thread,     \* a process_thread started while this one was running
    progress,         \* the calls of gui.update_progress, in order
    audio_enabled,    \* gui.audio_enabled, the radio buttons' variable
    dual_audio_enabled, \* gui.dual_audio_enabled, the checkbox's variable
    widgets,          \* state of the audio section's button and scales
    blur_preview,     \* what _update_blur_preview_from_path last computed
    narasi_audio,     \* gui.get_narasi_audio_path() is not ""
    aligned,          \* the last audio track aligned to a target duration
    text_anchor,      \* the last text block add_text_overlay has placed
    audio_handled,    \* the last call of handle_audio_processing
    mode_var,         \* gui.processing_mode, the mode radio buttons' variable
    packed,           \* which settings sections are packed (visible)
    folder_path,      \* gui.folder_path, NoFolder for ""
    selected_files,   \* gui.selected_files
    is_single_file_mode, \* gui.is_single_file_mode
    last_dialog,      \* how the last file dialog ended
    last_accepted     \* the last dialog that was accepted, and its answer

vars == <<pc, status, processing_mode, files_to_process, template, has_template,
          template_mask, mask_built, text_enabled, audio_settings, i,
          successful_files, attempted, results, srcLen, srcSize, pos, reads,
          frames_written, target_frames, target_duration, fps, emitted,
          composited, loopExit, audio_raised, output, capOpen, outOpen,
          audio_on_open_writer,
          codec, tried, held, openedBy, outIsOpened, temp_output, temp_dir,
          other_thread, progress, audio_enabled, dual_audio_enabled, widgets,
          blur_preview, narasi_audio, aligned, text_anchor, audio_handled,
          mode_var, packed, folder_path, selected_files, is_single_file_mode,
          last_dialog, last_accepted>>

guiVars == <<processing_mode, files_to_process, template, has_template,
             text_enabled, audio_settings, narasi_audio>>
loopVars == <<srcLen, srcSize, pos, reads, frames_written, emitted, loopExit>>
narasiVars == <<target_frames, target_duration, fps, audio_raised>>
handleVars == <<capOpen, outOpen, audio_on_open_writer>>
writerVars == <<codec, tried, held, openedBy, outIsOpened>>
tempVars == <<temp_output, temp_dir>>
threadVars == <<other_thread>>
tkVars == <<audio_enabled, dual_audio_enabled, widgets, blur_preview>>
pureVars == <<aligned, text_anchor, audio_handled>>
panelVars == <<mode_var, packed, folder_path, selected_files,
               is_single_file_mode, last_dialog, last_accepted>>
selectionVars == <<folder_path, selected_files, is_single_file_mode>>
workerVars == <<pc, status, processing_mode, files_to_process, template,
                has_template, template_mask, mask_built, text_enabled,
                audio_settings, i, successful_files, attempted, results,
                srcLen, srcSize, pos, reads, frames_written, target_frames,
                target_duration, fps, emitted, composited, loopExit,
                audio_raised, output, capOpen, outOpen, audio_on_open_writer,
                codec, tried, held,
                openedBy, outIsOpened, temp_output, temp_dir, other_thread,
                progress, narasi_audio>>

Init ==
    /\ pc = "idle"
    /\ status = ""
    /\ processing_mode = "greenscreen"
    /\ files_to_process = <<>>
    /\ template = NoTemplate
    /\ has_template = FALSE
    /\ template_mask = NoMask
    /\ mask_built = FALSE
    /\ text_enabled = TRUE
    /\ audio_settings = NoAudio
    /\ i = 0
    /\ successful_files = 0
    /\ attempted = <<>>
    /\ results = <<>>
    /\ srcLen = 0
    /\ srcSize = Canvas
    /\ pos = 0
    /\ reads = 0
    /\ frames_written = 0
    /\ target_frames = 0
    /\ target_duration = 0
    /\ fps = 0
    /\ emitted = <<>>
    /\ composited = FALSE
    /\ loopExit = "none"
    /\ audio_raised = FALSE
    /\ output = "none"
    /\ capOpen = FALSE
    /\ outOpen = FALSE
    /\ audio_on_open_writer = FALSE
    /\ codec = 1
    /\ tried = <<>>
    /\ held = {}
    /\ openedBy = {}
    /\ outIsOpened = FALSE
    /\ temp_output = FALSE
    /\ temp_dir = FALSE
    /\ other_thread = "none"
    /\ progress = <<>>
    /\ audio_enabled = FALSE
    /\ dual_audio_enabled = FALSE
    /\ widgets = on_audio_mode_change(FALSE, FALSE, AllDisabled).widgets
    /\ blur_preview = NoPreview
    /\ narasi_audio = FALSE
    /\ aligned = NotAligned
    /\ text_anchor = NotPlaced
    /\ audio_handled = NotHandled
    /\ mode_var = "greenscreen"
    /\ packed = on_mode_change("greenscreen", AllPacked)
    /\ folder_path = NoFolder
    /\ selected_files = <<>>
    /\ is_single_file_mode = FALSE
    /\ last_dialog = "none"
    /\ last_accepted = NothingAccepted

Total == Len(files_to_process)

\* ------------------------------------------------- process_videos_bulk

\* Mutant of ValidationStatus: the audio folder is not looked into.
ValidationStatus_FolderNotListed(mode, files, hasT, tmpl, narasiAudio, audio) ==
    IF files = <<>> THEN "no_files"
    ELSE IF mode = "narasi" THEN
        IF ~hasT THEN "no_template"
        ELSE IF ~narasiAudio THEN "no_narasi_audio"
        ELSE ""
    ELSE IF mode = "greenscreen" /\ ~hasT THEN "no_template"
    ELSE IF mode = "greenscreen" /\ tmpl.frames = <<>> THEN "error"
    ELSE IF mode = "greenscreen"
            /\ MaskIsEmpty(create_green_screen_mask(tmpl.frames[1]))
         THEN "no_green_screen"
    ELSE IF (audio.enabled \/ audio.dual_audio_enabled)
            /\ audio.folder_path = "none" THEN "no_audio_folder"
    ELSE ""

\* The status the validation of process_thread and of
\* VideoProcessor.process_narasi_mode ends with, "" when it passes.
ValidationStatus(mode, files, hasT, tmpl, narasiAudio, audio) ==
    IF files = <<>> THEN "no_files"
    ELSE IF mode = "narasi" THEN
        IF ~hasT THEN "no_template"
        ELSE IF ~narasiAudio THEN "no_narasi_audio"
        ELSE ""
    ELSE IF mode = "greenscreen" /\ ~hasT THEN "no_template"
    ELSE IF mode = "greenscreen" /\ tmpl.frames = <<>> THEN "error"
    ELSE IF mode = "greenscreen"
            /\ MaskIsEmpty(create_green_screen_mask(tmpl.frames[1]))
         THEN "no_green_screen"
    ELSE IF (audio.enabled \/ audio.dual_audio_enabled)
            /\ audio.folder_path = "none" THEN "no_audio_folder"
    ELSE IF (audio.enabled \/ audio.dual_audio_enabled)
            /\ audio.folder_path = "empty" THEN "no_audio_files"
    ELSE ""

AudioSettings ==
    {[enabled |-> m = "background", dual_audio_enabled |-> m = "dual",
      folder_path |-> f] : m \in AudioModes, f \in AudioFolders}

\* The audio settings drawn in narasi mode, which never reads them: the
\* default and background music switched on without a folder.
NarasiAudioSettings ==
    {a \in AudioSettings : a.folder_path = "none" /\ ~a.dual_audio_enabled}

\* "Start Processing": process_thread from its first line to the first job
\* (or to the return of a failed validation). What a branch never reads is
\* left at its default: the template in blur mode, the narration audio
\* outside narasi mode, the template frames after the first outside narasi
\* mode, the audio folder while no background music is asked for, the kinds
\* of the clips narasi mode concatenates.
StartProcessing ==
    /\ pc = "idle"
    /\ \E mode \in {"greenscreen", "blur", "narasi"}, files \in FileLists,
          hasT \in BOOLEAN, tmpl \in Templates, narasiAudio \in BOOLEAN,
          audio \in AudioSettings, txt \in BOOLEAN :
        LET v == ValidationStatus(mode, files, hasT, tmpl, narasiAudio, audio)
            builds == mode = "greenscreen" /\ files # <<>> /\ hasT
                      /\ tmpl.frames # <<>>
        IN  /\ hasT \/ tmpl = NoTemplate
            /\ mode = "narasi" => audio \in NarasiAudioSettings
            /\ mode = "narasi" => \A k \in DOMAIN files : files[k] = "video"
            /\ (~audio.enabled /\ ~audio.dual_audio_enabled)
                    => audio.folder_path = "none"
            /\ mode # "narasi" => ~narasiAudio
            /\ narasi_audio' = narasiAudio
            /\ mode = "blur" => ~hasT
            /\ mode # "narasi" => Len(tmpl.frames) <= 1
            /\ processing_mode' = mode
            /\ files_to_process' = files
            /\ has_template' = hasT
            /\ template' = tmpl
            /\ text_enabled' = txt
            /\ audio_settings' = audio
            /\ mask_built' = builds
            /\ template_mask' = IF builds
                                THEN create_green_screen_mask(tmpl.frames[1])
                                ELSE NoMask
            /\ IF v # "" THEN pc' = "done" /\ status' = v
               ELSE IF mode = "narasi"
                    THEN pc' = "narasi_begin" /\ status' = "processing"
                    ELSE pc' = "jobs" /\ status' = status
            /\ progress' = IF v = "" /\ mode = "narasi"
                           THEN <<update_progress(0, 1, 1, 0)>>
                           ELSE progress
    /\ UNCHANGED <<i, successful_files, attempted, results, composited, output>>
    /\ UNCHANGED loopVars
    /\ UNCHANGED narasiVars
    /\ UNCHANGED handleVars
    /\ UNCHANGED writerVars
    /\ UNCHANGED tempVars
    /\ UNCHANGED threadVars
    /\ UNCHANGED tkVars
    /\ UNCHANGED pureVars
    /\ UNCHANGED panelVars

\* ------------------------------------------------------------ audio

\* What handle_audio_processing can leave at output_path. The muxing
\* functions (file_operations) return True/False or raise; a raise ends in
\* the copy of the silent video, which can itself fail.
AudioRaiseOutcomes == {"copied", "none"}
OriginalAudioOutcomes == {"original"} \cup AudioRaiseOutcomes
AudioOutcomes(audio) ==
    IF audio.dual_audio_enabled THEN
        IF audio.folder_path = "files"
        THEN {"dual"} \cup OriginalAudioOutcomes
        ELSE OriginalAudioOutcomes
    ELSE IF audio.enabled /\ audio.folder_path # "none" THEN
        IF audio.folder_path = "files"
        THEN {"background"} \cup OriginalAudioOutcomes
        ELSE OriginalAudioOutcomes
    ELSE OriginalAudioOutcomes

\* The muxing functions of file_operations delete the silent video they
\* were given once the output is written.
TempAfterMux(exists) == FALSE

\* The '_temp.mp4' file after handle_audio_processing: the except branch
\* copies it (shutil.copy2) and leaves it where it is.
TempAfterAudio(exists, o) ==
    IF o \in AudioRaiseOutcomes THEN exists ELSE TempAfterMux(exists)

\* The '_temp.mp4' file after handle_gif_audio_processing: removed after
\* muxing, renamed by shutil.move otherwise.
TempAfterGifAudio(exists, o) == IF o = "none" THEN exists ELSE FALSE

\* What handle_gif_audio_processing can leave at output_path.
GifAudioOutcomes(audio) ==
    IF (audio.enabled \/ audio.dual_audio_enabled) /\ audio.folder_path = "files"
    THEN {"background", "moved", "none"}
    ELSE {"moved", "none"}

\* What the steps of handle_audio_processing can do: the two mixing
\* functions return True or False or raise, add_audio_to_video returns (its
\* value is not looked at) or raises, shutil.copy2 succeeds or raises.
MixResults == {"true", "false", "raise"}
OriginalResults == {"done", "raise"}
CopyResults == {"ok", "raise"}

\* The except branch of handle_audio_processing: the silent video is
\* copied if it is there; a failing copy is logged.
AudioExcept(steps, temp_exists, copy) ==
    IF temp_exists
    THEN [steps |-> Append(steps, "copy"),
          output |-> IF copy = "ok" THEN "copied" ELSE "none", raised |-> FALSE]
    ELSE [steps |-> steps, output |-> "none", raised |-> FALSE]

\* Mutant of UseOriginalAudio: the fallback writes nothing.
UseOriginalAudio_Dropped(steps, orig, temp_exists, copy) ==
    [steps |-> steps, output |-> "none", raised |-> FALSE]

\* add_audio_to_video(temp_output, video_path, output_path), the last step
\* of every branch that has not returned.
UseOriginalAudio(steps, orig, temp_exists, copy) ==
    IF orig = "raise"
    THEN AudioExcept(Append(steps, "original"), temp_exists, copy)
    ELSE [steps |-> Append(steps, "original"), output |-> "original",
          raised |-> FALSE]

\* One mixing step (add_dual_audio_to_video, add_background_music_to_video)
\* and what follows it.
MixThenFallback(step, mix, orig, temp_exists, copy) ==
    CASE mix = "true" -> [steps |-> <<step>>, output |-> step, raised |-> FALSE]
      [] mix = "false" -> UseOriginalAudio(<<step>>, orig, temp_exists, copy)
      [] OTHER -> AudioExcept(<<step>>, temp_exists, copy)

\* handle_audio_processing: the steps it calls, in order, what it leaves
\* at output_path and whether an exception leaves it.
handle_audio_processing(audio, mix, orig, temp_exists, copy) ==
    IF audio.dual_audio_enabled THEN
        IF audio.folder_path # "none" THEN
            IF audio.folder_path = "files"
            THEN MixThenFallback("dual", mix, orig, temp_exists, copy)
            ELSE UseOriginalAudio(<<>>, orig, temp_exists, copy)
        ELSE UseOriginalAudio(<<>>, orig, temp_exists, copy)
    ELSE IF audio.enabled /\ audio.folder_path # "none" THEN
        IF audio.folder_path = "files"
        THEN MixThenFallback("background", mix, orig, temp_exists, copy)
        ELSE UseOriginalAudio(<<>>, orig, temp_exists, copy)
    ELSE UseOriginalAudio(<<>>, orig, temp_exists, copy)

\* -------------------------------------------------- jobs of the batch

JobResult(empty, outcome, stageFailed) ==
    [empty |-> empty, outcome |-> outcome, stageFailed |-> stageFailed]

InJobs(kind) ==
    /\ pc = "jobs"
    /\ i < Total
    /\ files_to_process[i + 1] = kind

GifTemplateVideo == processing_mode = "greenscreen" /\ template.isGif

\* A job that ends: the locals of the per-job function are gone, its record
\* is logged and the loop moves on.
EndJob(result, nextI) ==
    /\ srcLen' = 0
    /\ srcSize' = Canvas
    /\ pos' = 0
    /\ reads' = 0
    /\ frames_written' = 0
    /\ emitted' = <<>>
    /\ results' = Append(results, result)
    /\ successful_files' = IF result.outcome = "success"
                           THEN successful_files + 1 ELSE successful_files
    /\ i' = nextI
    /\ pc' = "jobs"

\* process_single_video_greenscreen / process_single_video_blur up to the
\* call of get_gpu_video_writer: the capture is acquired. What the capture
\* holds shows when the loop reads it (WriterReturns).
BeginVideoJob ==
    /\ InJobs("video")
    /\ ~GifTemplateVideo
    /\ srcLen' = 0
    /\ srcSize' = Canvas
    /\ pos' = 0
    /\ reads' = 0
    /\ frames_written' = 0
    /\ emitted' = <<>>
    /\ loopExit' = "none"
    /\ capOpen' = TRUE
    /\ attempted' = Append(attempted, i + 1)
    /\ status' = "processing"
    /\ pc' = "writer_select"
    /\ UNCHANGED <<i, successful_files, results, composited, output,
                   template_mask, mask_built, outOpen>>
    /\ UNCHANGED writerVars
    /\ UNCHANGED guiVars
    /\ UNCHANGED narasiVars
    /\ temp_output' = FALSE
    /\ UNCHANGED temp_dir
    /\ UNCHANGED threadVars
    /\ progress' = Append(progress, JobProgress(i, Total, Len(results)))
    /\ UNCHANGED tkVars
    /\ UNCHANGED pureVars
    /\ UNCHANGED panelVars
    /\ UNCHANGED audio_on_open_writer

\* An exception before the frame loop of a video job (template reload,
\* get_video_properties, writer creation): it reaches the except of the
\* batch loop, which continues with the next file.
VideoJobSetupRaises ==
    /\ InJobs("video")
    /\ ~GifTemplateVideo
    /\ \E capAcquired \in BOOLEAN : capOpen' = capAcquired
    /\ attempted' = Append(attempted, i + 1)
    /\ status' = "processing"
    /\ EndJob(JobResult(FALSE, "exception", TRUE),
              NextIndexAfterException(i, Total))
    /\ UNCHANGED <<composited, output, template_mask, mask_built, outOpen,
                   loopExit>>
    /\ UNCHANGED guiVars
    /\ UNCHANGED narasiVars
    /\ UNCHANGED writerVars
    /\ temp_output' = FALSE
    /\ UNCHANGED temp_dir
    /\ UNCHANGED threadVars
    /\ progress' = Append(progress, JobProgress(i, Total, Len(results)))
    /\ UNCHANGED tkVars
    /\ UNCHANGED pureVars
    /\ UNCHANGED panelVars
    /\ UNCHANGED audio_on_open_writer

\* A video under an animated template: process_video_with_gif_template
\* (gif_processing) does the frames; its result decides whether the audio is
\* handled, and process_videos_bulk counts the job whatever is returned.
VideoJobWithGifTemplate ==
    /\ InJobs("video")
    /\ GifTemplateVideo
    /\ attempted' = Append(attempted, i + 1)
    /\ status' = "processing"
    /\ \E r \in {"true", "false", "raise"} :
        \/ /\ r = "true"
           /\ \E o \in AudioOutcomes(audio_settings) :
                /\ output' = o
                /\ temp_output' = TempAfterAudio(TRUE, o)
           /\ EndJob(JobResult(FALSE, "success", FALSE), i + 1)
        \/ /\ r = "false"
           /\ output' = "none"
           /\ temp_output' = FALSE
           /\ EndJob(JobResult(FALSE, "success", TRUE), i + 1)
        \/ /\ r = "raise"
           /\ output' = "none"
           /\ temp_output' = FALSE
           /\ EndJob(JobResult(FALSE, "exception", TRUE),
                     NextIndexAfterException(i, Total))
    /\ UNCHANGED <<composited, template_mask, mask_built, loopExit, temp_dir>>
    /\ UNCHANGED guiVars
    /\ UNCHANGED narasiVars
    /\ UNCHANGED handleVars
    /\ UNCHANGED writerVars
    /\ UNCHANGED threadVars
    /\ progress' = Append(progress, JobProgress(i, Total, Len(results)))
    /\ UNCHANGED tkVars
    /\ UNCHANGED pureVars
    /\ UNCHANGED panelVars

KeyedMode == processing_mode # "blur"

\* One pass of "while True" of a video job: a frame is read, composited,
\* overlaid, resized if needed and written.
VideoLoopIteration ==
    /\ pc = "video_loop"
    /\ pos < srcLen
    /\ \E csize \in CompositorOutputSizes(srcSize) :
        emitted' = Append(emitted,
            ProcessedFrame(pos, 0, KeyedMode,
                           IF KeyedMode THEN MaskSum(template_mask) ELSE 0,
                           csize, text_enabled))
    /\ pos' = pos + 1
    /\ reads' = reads + 1
    /\ frames_written' = frames_written + 1
    /\ composited' = TRUE
    /\ UNCHANGED <<pc, status, i, successful_files, attempted, results, srcLen,
                   srcSize, loopExit, output, template_mask, mask_built>>
    /\ UNCHANGED guiVars
    /\ UNCHANGED narasiVars
    /\ UNCHANGED handleVars
    /\ UNCHANGED writerVars
    /\ UNCHANGED tempVars
    /\ UNCHANGED threadVars
    /\ UNCHANGED progress
    /\ UNCHANGED tkVars
    /\ UNCHANGED pureVars
    /\ UNCHANGED panelVars

\* The tail of a video job: finally releases both handles, the audio is
\* handled, True is returned and the batch counts the job.
FinishVideoJob(exit, empty, stageFailed) ==
    /\ loopExit' = exit
    /\ capOpen' = FALSE
    /\ outOpen' = ReleaseWriter(outOpen)
    /\ audio_on_open_writer' = (audio_on_open_writer \/ ReleaseWriter(outOpen))
    /\ outIsOpened' = FALSE
    /\ UNCHANGED <<codec, tried, held, openedBy, temp_dir>>
    /\ \E o \in AudioOutcomes(audio_settings) :
        /\ o = "copied" => temp_output
        /\ output' = o
        /\ temp_output' = TempAfterAudio(temp_output, o)
    /\ EndJob(JobResult(empty, "success", stageFailed), i + 1)

\* A pass whose compositing raises: except logs it, then the tail.
VideoLoopRaise ==
    /\ pc = "video_loop"
    /\ pos < srcLen
    /\ FinishVideoJob("raise", FALSE, TRUE)
    /\ UNCHANGED <<status, attempted, composited, template_mask, mask_built>>
    /\ UNCHANGED guiVars
    /\ UNCHANGED narasiVars
    /\ UNCHANGED threadVars
    /\ UNCHANGED progress
    /\ UNCHANGED tkVars
    /\ UNCHANGED pureVars
    /\ UNCHANGED panelVars

\* cap.read() returns nothing: break, then the tail.
VideoLoopEnd ==
    /\ pc = "video_loop"
    /\ pos >= srcLen
    /\ FinishVideoJob("break", reads = 0, FALSE)
    /\ UNCHANGED <<status, attempted, composited, template_mask, mask_built>>
    /\ UNCHANGED guiVars
    /\ UNCHANGED narasiVars
    /\ UNCHANGED threadVars
    /\ UNCHANGED progress
    /\ UNCHANGED tkVars
    /\ UNCHANGED pureVars
    /\ UNCHANGED panelVars

\* process_gif_to_mp4_greenscreen / process_gif_to_mp4_blur up to the call
\* of get_gpu_video_writer: the frames are extracted (at least one, see
\* GifJobFails). The list shows when the loop walks it (WriterReturns).
BeginGifJob ==
    /\ InJobs("gif")
    /\ srcLen' = 0
    /\ srcSize' = Canvas
    /\ pos' = 0
    /\ reads' = 0
    /\ frames_written' = 0
    /\ emitted' = <<>>
    /\ loopExit' = "none"
    /\ attempted' = Append(attempted, i + 1)
    /\ status' = "processing"
    /\ pc' = "writer_select"
    /\ UNCHANGED <<i, successful_files, results, composited, output,
                   template_mask, mask_built>>
    /\ UNCHANGED handleVars
    /\ UNCHANGED writerVars
    /\ UNCHANGED guiVars
    /\ UNCHANGED narasiVars
    /\ temp_output' = FALSE
    /\ UNCHANGED temp_dir
    /\ UNCHANGED threadVars
    /\ progress' = Append(progress, JobProgress(i, Total, Len(results)))
    /\ UNCHANGED tkVars
    /\ UNCHANGED pureVars
    /\ UNCHANGED panelVars

\* One attempt of get_gpu_video_writer that looks at isOpened(): the writer
\* is constructed; an opened writer is returned, one that is not opened is
\* released, a constructor that raises is logged; then the next attempt.
WriterAttempt ==
    /\ tried' = Append(tried, codec)
    /\ \E o \in WriterOutcomes :
        \/ /\ o = "opened"
           /\ openedBy' = openedBy \cup {codec}
           /\ outIsOpened' = TRUE
           /\ pc' = "writer_done"
           /\ UNCHANGED <<codec, held>>
        \/ /\ o = "closed"
           /\ held' = ReleaseFailed(held \cup {codec}, codec)
           /\ codec' = NextCandidate(codec)
           /\ UNCHANGED <<pc, openedBy, outIsOpened>>
        \/ /\ o = "raise"
           /\ codec' = NextCandidate(codec)
           /\ UNCHANGED <<pc, held, openedBy, outIsOpened>>
    /\ UNCHANGED <<status, i, successful_files, attempted, results, composited,
                   output, template_mask, mask_built>>
    /\ UNCHANGED guiVars
    /\ UNCHANGED loopVars
    /\ UNCHANGED narasiVars
    /\ UNCHANGED handleVars
    /\ UNCHANGED tempVars
    /\ UNCHANGED threadVars
    /\ UNCHANGED progress
    /\ UNCHANGED tkVars
    /\ UNCHANGED pureVars
    /\ UNCHANGED panelVars

\* "for fourcc_name, fourcc_code in fourcc_options": one entry of the list.
WriterTryCandidate ==
    /\ pc = "writer_select"
    /\ codec \in FourccOptions
    /\ WriterAttempt

\* "Final fallback": mp4v, after the whole list failed.
WriterTryFallback ==
    /\ pc = "writer_select"
    /\ codec = FallbackCodec
    /\ WriterAttempt

\* "Last resort": a writer is constructed and returned as it is, opened or
\* not.
WriterLastResort ==
    /\ pc = "writer_select"
    /\ codec = LastResortCodec
    /\ tried' = Append(tried, codec)
    /\ \E isOpened \in BOOLEAN :
        /\ outIsOpened' = isOpened
        /\ openedBy' = IF isOpened THEN openedBy \cup {codec} ELSE openedBy
    /\ pc' = "writer_done"
    /\ UNCHANGED <<codec, held>>
    /\ UNCHANGED <<status, i, successful_files, attempted, results, composited,
                   output, template_mask, mask_built>>
    /\ UNCHANGED guiVars
    /\ UNCHANGED loopVars
    /\ UNCHANGED narasiVars
    /\ UNCHANGED handleVars
    /\ UNCHANGED tempVars
    /\ UNCHANGED threadVars
    /\ UNCHANGED progress
    /\ UNCHANGED tkVars
    /\ UNCHANGED pureVars
    /\ UNCHANGED panelVars

\* The constructor of the last resort raises: nothing in
\* get_gpu_video_writer catches it. In a video job it reaches the except of
\* the batch loop with the capture still held; in a GIF job the except of
\* the function returns False.
WriterLastResortRaises ==
    /\ pc = "writer_select"
    /\ codec = LastResortCodec
    /\ codec' = 1
    /\ tried' = <<>>
    /\ held' = {}
    /\ openedBy' = {}
    /\ outIsOpened' = FALSE
    /\ IF files_to_process[i + 1] = "video"
       THEN EndJob(JobResult(FALSE, "exception", TRUE),
                   NextIndexAfterException(i, Total))
       ELSE EndJob(JobResult(FALSE, "failed", TRUE), i + 1)
    /\ UNCHANGED <<status, attempted, composited, output, template_mask,
                   mask_built, loopExit>>
    /\ UNCHANGED guiVars
    /\ UNCHANGED narasiVars
    /\ UNCHANGED handleVars
    /\ UNCHANGED tempVars
    /\ UNCHANGED threadVars
    /\ UNCHANGED progress
    /\ UNCHANGED tkVars
    /\ UNCHANGED pureVars
    /\ UNCHANGED panelVars

\* get_gpu_video_writer has returned: "out" holds the writer and the frame
\* loop of the caller begins, over a capture that can be empty or over the
\* frames extracted from the GIF.
WriterReturns ==
    /\ pc = "writer_done"
    /\ pc' = IF files_to_process[i + 1] = "video" THEN "video_loop"
             ELSE "gif_loop"
    /\ \E n \in 0..MaxFrames, sz \in FrameSizes :
        /\ files_to_process[i + 1] = "gif" => n >= 1
        /\ srcLen' = n
        /\ srcSize' = sz
    /\ UNCHANGED <<pos, reads, frames_written, emitted, loopExit>>
    /\ outOpen' = TRUE
    /\ temp_output' = outIsOpened
    /\ codec' = 1
    /\ tried' = <<>>
    /\ held' = {}
    /\ openedBy' = {}
    /\ UNCHANGED <<status, i, successful_files, attempted, results, composited,
                   output, template_mask, mask_built, capOpen, outIsOpened,
                   temp_dir>>
    /\ UNCHANGED guiVars
    /\ UNCHANGED narasiVars
    /\ UNCHANGED threadVars
    /\ UNCHANGED progress
    /\ UNCHANGED tkVars
    /\ UNCHANGED pureVars
    /\ UNCHANGED panelVars
    /\ UNCHANGED audio_on_open_writer

\* A GIF job that returns False before its loop: no frames extracted
\* ("if not frames"), or an exception caught by the function's except.
GifJobFails ==
    /\ InJobs("gif")
    /\ attempted' = Append(attempted, i + 1)
    /\ status' = "processing"
    /\ \E noFrames \in BOOLEAN :
        EndJob(JobResult(noFrames, "failed", TRUE), i + 1)
    /\ UNCHANGED <<composited, output, template_mask, mask_built, loopExit>>
    /\ UNCHANGED guiVars
    /\ UNCHANGED narasiVars
    /\ UNCHANGED handleVars
    /\ UNCHANGED writerVars
    /\ temp_output' = FALSE
    /\ UNCHANGED temp_dir
    /\ UNCHANGED threadVars
    /\ progress' = Append(progress, JobProgress(i, Total, Len(results)))
    /\ UNCHANGED tkVars
    /\ UNCHANGED pureVars
    /\ UNCHANGED panelVars

\* One pass of "for i, frame in enumerate(frames)" of a GIF job.
GifLoopIteration ==
    /\ pc = "gif_loop"
    /\ pos < srcLen
    /\ \E csize \in CompositorOutputSizes(srcSize) :
        emitted' = Append(emitted,
            ProcessedFrame(pos, 0, KeyedMode,
                           IF KeyedMode THEN MaskSum(template_mask) ELSE 0,
                           csize, text_enabled))
    /\ pos' = pos + 1
    /\ reads' = reads + 1
    /\ frames_written' = frames_written + 1
    /\ composited' = TRUE
    /\ UNCHANGED <<pc, status, i, successful_files, attempted, results, srcLen,
                   srcSize, loopExit, output, template_mask, mask_built>>
    /\ UNCHANGED guiVars
    /\ UNCHANGED narasiVars
    /\ UNCHANGED handleVars
    /\ UNCHANGED writerVars
    /\ UNCHANGED tempVars
    /\ UNCHANGED threadVars
    /\ UNCHANGED progress
    /\ UNCHANGED tkVars
    /\ UNCHANGED pureVars
    /\ UNCHANGED panelVars

\* A pass whose compositing raises: the function's except returns False;
\* out.release() is not reached.
GifLoopRaise ==
    /\ pc = "gif_loop"
    /\ pos < srcLen
    /\ loopExit' = "raise"
    /\ outIsOpened' = FALSE
    /\ UNCHANGED <<codec, tried, held, openedBy>>
    /\ EndJob(JobResult(FALSE, "failed", TRUE), i + 1)
    /\ UNCHANGED <<status, attempted, composited, output, template_mask,
                   mask_built>>
    /\ UNCHANGED guiVars
    /\ UNCHANGED narasiVars
    /\ UNCHANGED handleVars
    /\ UNCHANGED tempVars
    /\ UNCHANGED threadVars
    /\ UNCHANGED progress
    /\ UNCHANGED tkVars
    /\ UNCHANGED pureVars
    /\ UNCHANGED panelVars

\* The frames are exhausted: out.release(), handle_gif_audio_processing,
\* return True.
GifLoopEnd ==
    /\ pc = "gif_loop"
    /\ pos >= srcLen
    /\ loopExit' = "end"
    /\ outOpen' = ReleaseWriter(outOpen)
    /\ audio_on_open_writer' = (audio_on_open_writer \/ ReleaseWriter(outOpen))
    /\ outIsOpened' = FALSE
    /\ UNCHANGED <<codec, tried, held, openedBy, temp_dir>>
    /\ \E o \in GifAudioOutcomes(audio_settings) :
        /\ o = "moved" => temp_output
        /\ output' = o
        /\ temp_output' = TempAfterGifAudio(temp_output, o)
    /\ EndJob(JobResult(FALSE, "success", FALSE), i + 1)
    /\ UNCHANGED <<status, attempted, composited, template_mask, mask_built,
                   capOpen>>
    /\ UNCHANGED guiVars
    /\ UNCHANGED narasiVars
    /\ UNCHANGED threadVars
    /\ UNCHANGED progress
    /\ UNCHANGED tkVars
    /\ UNCHANGED pureVars
    /\ UNCHANGED panelVars

\* After the last file: update_progress(total, total) and the summary
\* "successful/total".
BatchFinish ==
    /\ pc = "jobs"
    /\ i >= Total
    /\ pc' = "done"
    /\ status' = "summary"
    /\ progress' = Append(progress,
                          update_progress(Total, Total, 0, Len(results)))
    /\ UNCHANGED <<i, successful_files, attempted, results, composited, output,
                   template_mask, mask_built>>
    /\ UNCHANGED guiVars
    /\ UNCHANGED loopVars
    /\ UNCHANGED narasiVars
    /\ UNCHANGED handleVars
    /\ UNCHANGED writerVars
    /\ UNCHANGED tempVars
    /\ UNCHANGED threadVars
    /\ UNCHANGED tkVars
    /\ UNCHANGED pureVars
    /\ UNCHANGED panelVars

\* ------------------------------------------------------- narasi mode

\* The mask create_green_screen_mask builds for frame g (0-based) of the
\* animated template.
GifMask(g) == create_green_screen_mask(template.frames[g + 1])

\* process_narasi_mode down to the frame loop of
\* process_concatenated_video_with_template (or its GIF variant): narration
\* duration, concatenation, template, mask check, capture, target_frames.
NarasiBegin ==
    /\ pc = "narasi_begin"
    /\ template.frames # <<>>
    /\ ~MaskIsEmpty(create_green_screen_mask(template.frames[1]))
    /\ \E tn \in 0..MaxTnum, rate \in 1..MaxFps, n \in 0..MaxFrames,
          sz \in FrameSizes :
        /\ target_duration' = tn
        /\ fps' = rate
        /\ target_frames' = TargetFrames(tn, rate)
        /\ srcLen' = n
        /\ srcSize' = sz
    /\ template_mask' = create_green_screen_mask(template.frames[1])
    /\ mask_built' = TRUE
    /\ pos' = 0
    /\ reads' = 0
    /\ frames_written' = 0
    /\ emitted' = <<>>
    /\ loopExit' = "none"
    /\ capOpen' = TRUE
    /\ outOpen' = TRUE
    /\ temp_dir' = TRUE
    /\ pc' = "narasi_loop"
    /\ UNCHANGED <<status, i, successful_files, attempted, results, composited,
                   output, audio_raised, temp_output>>
    /\ UNCHANGED guiVars
    /\ UNCHANGED writerVars
    /\ UNCHANGED threadVars
    /\ UNCHANGED progress
    /\ UNCHANGED tkVars
    /\ UNCHANGED pureVars
    /\ UNCHANGED panelVars
    /\ UNCHANGED audio_on_open_writer

\* process_narasi_mode ending before the frame loop. Reading the narration
\* raises outside the try (VideoProcessor.process_narasi_mode reports the
\* error); everything later is caught and returns False: a failed
\* concatenation, an unreadable template, a mask without key pixel
\* ("No green screen detected in template"), a frame rate of 0 (the
\* division total_frames / fps, after the capture was opened).
NarasiBeginFails ==
    /\ pc = "narasi_begin"
    /\ \E cause \in {"audio", "concat", "template", "mask", "fps"} :
        LET readable == template.frames # <<>>
            mask == IF readable THEN create_green_screen_mask(template.frames[1])
                    ELSE NoMask
            reachesMask == cause \in {"mask", "fps"}
        IN  /\ cause = "template" => ~readable
            /\ reachesMask => readable
            /\ cause = "mask" => MaskIsEmpty(mask)
            /\ cause = "fps" => ~MaskIsEmpty(mask)
            /\ mask_built' = reachesMask
            /\ template_mask' = IF reachesMask THEN mask ELSE NoMask
            /\ capOpen' = (cause = "fps")
            /\ status' = IF cause = "audio" THEN "error_narasi" ELSE "narasi_failed"
    /\ results' = Append(results, JobResult(FALSE, "failed", TRUE))
    /\ pc' = "done"
    /\ UNCHANGED <<i, successful_files, attempted, composited, output, outOpen>>
    /\ UNCHANGED guiVars
    /\ UNCHANGED loopVars
    /\ UNCHANGED narasiVars
    /\ UNCHANGED writerVars
    /\ UNCHANGED tempVars
    /\ UNCHANGED threadVars
    /\ UNCHANGED progress
    /\ UNCHANGED tkVars
    /\ UNCHANGED pureVars
    /\ UNCHANGED panelVars
    /\ UNCHANGED audio_on_open_writer

\* Mutant of narasi_status: a failed run writes no status.
narasi_status_SilentOnFailure(success) ==
    IF success THEN "narasi_done" ELSE "processing"

\* The status VideoProcessor.process_narasi_mode writes for what
\* process_narasi_mode returned.
narasi_status(success) ==
    IF success THEN "narasi_done" ELSE "narasi_failed"

\* The frame of one pass of the narasi loop: static template with the
\* batch's mask, or GIF frame frames_written % gif_frame_count with a mask
\* built from that frame.
NarasiFrame(src, csize) ==
    IF template.isGif
    THEN LET g == GifFrameIndex(frames_written, Len(template.frames))
         IN  ProcessedFrame(src, g, TRUE, MaskSum(GifMask(g)), csize, text_enabled)
    ELSE ProcessedFrame(src, 0, TRUE, MaskSum(template_mask), csize, text_enabled)

\* One pass of "while frames_written < target_frames" that writes a frame.
NarasiLoopIteration ==
    /\ pc = "narasi_loop"
    /\ LoopCondition(frames_written, target_frames)
    /\ LET r == ReadWithLoop(pos, srcLen)
       IN  /\ r.ret
           /\ pos' = r.pos
           /\ \E csize \in CompositorOutputSizes(srcSize) :
                emitted' = Append(emitted, NarasiFrame(r.frame, csize))
    /\ reads' = reads + 1
    /\ frames_written' = frames_written + 1
    /\ composited' = TRUE
    /\ UNCHANGED <<pc, status, i, successful_files, attempted, results, srcLen,
                   srcSize, loopExit, output, template_mask, mask_built>>
    /\ UNCHANGED guiVars
    /\ UNCHANGED narasiVars
    /\ UNCHANGED handleVars
    /\ UNCHANGED writerVars
    /\ UNCHANGED tempVars
    /\ UNCHANGED threadVars
    /\ UNCHANGED progress
    /\ UNCHANGED tkVars
    /\ UNCHANGED pureVars
    /\ UNCHANGED panelVars

\* A pass whose compositing raises: finally releases the handles, the
\* exception reaches the except of process_narasi_mode, which returns False.
NarasiLoopRaise ==
    /\ pc = "narasi_loop"
    /\ LoopCondition(frames_written, target_frames)
    /\ LET r == ReadWithLoop(pos, srcLen)
       IN  /\ r.ret
           /\ pos' = r.pos
    /\ reads' = reads + 1
    /\ loopExit' = "raise"
    /\ capOpen' = FALSE
    /\ outOpen' = FALSE
    /\ temp_dir' = FALSE
    /\ UNCHANGED temp_output
    /\ results' = Append(results, JobResult(FALSE, "failed", TRUE))
    /\ status' = narasi_status(FALSE)
    /\ pc' = "done"
    /\ UNCHANGED <<i, successful_files, attempted, srcLen, srcSize,
                   frames_written, emitted, composited, output, template_mask,
                   mask_built>>
    /\ UNCHANGED guiVars
    /\ UNCHANGED narasiVars
    /\ UNCHANGED writerVars
    /\ UNCHANGED threadVars
    /\ UNCHANGED progress
    /\ UNCHANGED tkVars
    /\ UNCHANGED pureVars
    /\ UNCHANGED panelVars
    /\ UNCHANGED audio_on_open_writer

\* After the loop: finally releases the handles, True is returned, then
\* add_audio_to_narasi_video. It returns True after muxing; when anything in
\* it raises it copies the silent video to output_path (the copy can fail)
\* and returns False, which process_narasi_mode hands on.
FinishNarasi(exit) ==
    /\ loopExit' = exit
    /\ capOpen' = FALSE
    /\ outOpen' = ReleaseWriter(outOpen)
    /\ audio_on_open_writer' = (audio_on_open_writer \/ ReleaseWriter(outOpen))
    /\ temp_dir' = FALSE
    /\ UNCHANGED temp_output
    /\ \E a \in {"ok", "raise_copied", "raise_copy_failed"} :
        /\ audio_raised' = (a # "ok")
        /\ output' = CASE a = "ok" -> "muxed"
                       [] a = "raise_copied" -> "silent_copy"
                       [] OTHER -> "none"
        /\ status' = narasi_status(a = "ok")
        /\ progress' = IF a = "ok"
                       THEN Append(progress, update_progress(1, 1, 0, 1))
                       ELSE progress
        /\ results' = Append(results,
               JobResult(exit = "break",
                         IF a = "ok" THEN "success" ELSE "failed", a # "ok"))
    /\ pc' = "done"

\* frames_written has reached target_frames.
NarasiLoopDone ==
    /\ pc = "narasi_loop"
    /\ ~LoopCondition(frames_written, target_frames)
    /\ FinishNarasi("target")
    /\ UNCHANGED <<i, successful_files, attempted, srcLen, srcSize, pos, reads,
                   frames_written, emitted, composited, template_mask,
                   mask_built, target_frames, target_duration, fps>>
    /\ UNCHANGED guiVars
    /\ UNCHANGED writerVars
    /\ UNCHANGED threadVars
    /\ UNCHANGED tkVars
    /\ UNCHANGED pureVars
    /\ UNCHANGED panelVars

\* Also the read after the restart yields nothing: break.
NarasiLoopBreak ==
    /\ pc = "narasi_loop"
    /\ LoopCondition(frames_written, target_frames)
    /\ ~ReadWithLoop(pos, srcLen).ret
    /\ FinishNarasi("break")
    /\ UNCHANGED <<i, successful_files, attempted, srcLen, srcSize, pos, reads,
                   frames_written, emitted, composited, template_mask,
                   mask_built, target_frames, target_duration, fps>>
    /\ UNCHANGED guiVars
    /\ UNCHANGED writerVars
    /\ UNCHANGED threadVars
    /\ UNCHANGED tkVars
    /\ UNCHANGED pureVars
    /\ UNCHANGED panelVars

Next ==
    \/ StartProcessing
    \/ BeginVideoJob
    \/ VideoJobSetupRaises
    \/ VideoJobWithGifTemplate
    \/ VideoLoopIteration
    \/ VideoLoopRaise
    \/ VideoLoopEnd
    \/ BeginGifJob
    \/ GifJobFails
    \/ GifLoopIteration
    \/ GifLoopRaise
    \/ GifLoopEnd
    \/ WriterTryCandidate
    \/ WriterTryFallback
    \/ WriterLastResort
    \/ WriterLastResortRaises
    \/ WriterReturns
    \/ BatchFinish
    \/ NarasiBegin
    \/ NarasiBeginFails
    \/ NarasiLoopIteration
    \/ NarasiLoopRaise
    \/ NarasiLoopDone
    \/ NarasiLoopBreak

Spec == Init /\ [][Next]_vars

\* The batches whose termination is followed: the text overlay is on and
\* every template frame is of one colour, keyed or not. Neither is read by
\* a loop condition or a branch of the worker.
SampledInputs ==
    /\ text_enabled
    /\ \A k \in DOMAIN template.frames :
            \A p, q \in Pixels : template.frames[k][p] = template.frames[k][q]

\* process_videos_bulk for one of these batches.
StartProcessingSampled == StartProcessing /\ SampledInputs'

NextFair ==
    \/ StartProcessingSampled
    \/ BeginVideoJob
    \/ VideoJobSetupRaises
    \/ VideoJobWithGifTemplate
    \/ VideoLoopIteration
    \/ VideoLoopRaise
    \/ VideoLoopEnd
    \/ BeginGifJob
    \/ GifJobFails
    \/ GifLoopIteration
    \/ GifLoopRaise
    \/ GifLoopEnd
    \/ WriterTryCandidate
    \/ WriterTryFallback
    \/ WriterLastResort
    \/ WriterLastResortRaises
    \/ WriterReturns
    \/ BatchFinish
    \/ NarasiBegin
    \/ NarasiBeginFails
    \/ NarasiLoopIteration
    \/ NarasiLoopRaise
    \/ NarasiLoopDone
    \/ NarasiLoopBreak

\* A step of process_thread after it was started.
WorkerStep == pc # "idle" /\ NextFair

\* Once started, the worker thread is scheduled and every call into the
\* media libraries returns: a step of process_thread that can be taken is
\* taken. Nothing makes the user press "Start Processing".
SpecFair == Init /\ [][NextFair]_vars /\ WF_vars(WorkerStep)

\* ------------------------------------- "Start Processing" pressed again

\* The worker modelled above is inside process_thread.
WorkerRunning == pc \notin {"idle", "done"}

\* The worker modelled above is inside a job.
WorkerInJob ==
    pc \in {"writer_select", "writer_done", "video_loop", "gif_loop",
            "narasi_begin", "narasi_loop"}

\* process_videos_bulk called while a batch is running: the button's
\* command is the same callback at all times, and the callback creates and
\* starts a new thread without looking at the running one.
StartProcessingAgain ==
    /\ WorkerRunning
    /\ other_thread = "none"
    /\ other_thread' = "validating"
    /\ UNCHANGED <<pc, status, i, successful_files, attempted, results,
                   composited, output, template_mask, mask_built>>
    /\ UNCHANGED guiVars
    /\ UNCHANGED loopVars
    /\ UNCHANGED narasiVars
    /\ UNCHANGED handleVars
    /\ UNCHANGED writerVars
    /\ UNCHANGED tempVars
    /\ UNCHANGED progress
    /\ UNCHANGED tkVars
    /\ UNCHANGED pureVars
    /\ UNCHANGED panelVars

\* The second thread reads the same GUI state, passes the same validation
\* and enters its first job.
OtherThreadBeginsJob ==
    /\ other_thread = "validating"
    /\ other_thread' = "job"
    /\ UNCHANGED <<pc, status, i, successful_files, attempted, results,
                   composited, output, template_mask, mask_built>>
    /\ UNCHANGED guiVars
    /\ UNCHANGED loopVars
    /\ UNCHANGED narasiVars
    /\ UNCHANGED handleVars
    /\ UNCHANGED writerVars
    /\ UNCHANGED tempVars
    /\ UNCHANGED progress
    /\ UNCHANGED tkVars
    /\ UNCHANGED pureVars
    /\ UNCHANGED panelVars

\* The second thread has worked through its batch.
OtherThreadReturns ==
    /\ other_thread = "job"
    /\ other_thread' = "returned"
    /\ UNCHANGED <<pc, status, i, successful_files, attempted, results,
                   composited, output, template_mask, mask_built>>
    /\ UNCHANGED guiVars
    /\ UNCHANGED loopVars
    /\ UNCHANGED narasiVars
    /\ UNCHANGED handleVars
    /\ UNCHANGED writerVars
    /\ UNCHANGED tempVars
    /\ UNCHANGED progress
    /\ UNCHANGED tkVars
    /\ UNCHANGED pureVars
    /\ UNCHANGED panelVars

NextThreads ==
    \/ Next
    \/ StartProcessingAgain
    \/ OtherThreadBeginsJob
    \/ OtherThreadReturns

\* Any sequence of presses of "Start Processing".
SpecThreads == Init /\ [][NextThreads]_vars

\* --------------------------------------------------- the GUI thread

\* get_audio_settings, the two flags.
get_audio_settings ==
    [enabled |-> audio_enabled, dual_audio_enabled |-> dual_audio_enabled]

\* A click on one of the two radio buttons "Original Audio Only" (value
\* False) and "Background Music Only" (value True): the button sets
\* audio_enabled, then its command runs.
SelectAudioMode ==
    /\ \E value \in BOOLEAN :
        LET g == on_audio_mode_change(value, dual_audio_enabled, widgets)
        IN  /\ audio_enabled' = g.audio_enabled
            /\ dual_audio_enabled' = g.dual_audio_enabled
            /\ widgets' = g.widgets
    /\ UNCHANGED blur_preview
    /\ UNCHANGED workerVars
    /\ UNCHANGED pureVars
    /\ UNCHANGED panelVars

\* A click on the checkbox "Enable Dual Audio Mixing": the checkbox flips
\* dual_audio_enabled, then its command runs.
ToggleDualAudio ==
    /\ LET g == on_dual_audio_change(audio_enabled, ~dual_audio_enabled,
                                     widgets)
       IN  /\ audio_enabled' = g.audio_enabled
           /\ dual_audio_enabled' = g.dual_audio_enabled
           /\ widgets' = g.widgets
    /\ UNCHANGED blur_preview
    /\ UNCHANGED workerVars
    /\ UNCHANGED pureVars
    /\ UNCHANGED panelVars

\* on_crop_change / select_folder / select_files in blur mode: the first
\* frame of the first file is read and the preview is computed from the
\* sliders.
UpdateBlurPreview ==
    /\ \E size \in PreviewSources, crop_top, crop_bottom \in CropValues,
          x_percent, y_percent \in PercentValues :
        blur_preview' = BlurPreview(size[1], size[2], crop_top, crop_bottom,
                                    x_percent, y_percent)
    /\ UNCHANGED <<audio_enabled, dual_audio_enabled, widgets>>
    /\ UNCHANGED workerVars
    /\ UNCHANGED pureVars
    /\ UNCHANGED panelVars

NextGui ==
    \/ SelectAudioMode
    \/ ToggleDualAudio
    \/ UpdateBlurPreview

\* Any sequence of events handled by the GUI thread.
SpecGui == Init /\ [][NextGui]_vars

\* ------------------------------------------ mode and file selection

\* A click on one of the mode radio buttons: the button sets
\* processing_mode, then its command on_mode_change runs.
SelectMode ==
    /\ \E mode \in Modes :
        /\ mode_var' = mode
        /\ packed' = on_mode_change(mode, packed)
    /\ UNCHANGED selectionVars
    /\ UNCHANGED <<last_dialog, last_accepted>>
    /\ UNCHANGED workerVars
    /\ UNCHANGED tkVars
    /\ UNCHANGED pureVars

\* The selection the GUI holds.
CurrentSelection == Selection(folder_path, selected_files, is_single_file_mode)

\* A selection handler has written its three fields.
Selected(sel) ==
    /\ folder_path' = sel.folder_path
    /\ selected_files' = sel.selected_files
    /\ is_single_file_mode' = sel.is_single_file_mode

\* update_blur_preview / update_blur_preview_from_file at the end of an
\* accepted selection: in blur mode the first file of the selection is
\* previewed with the sliders as they stand, at their initial values;
\* nothing is computed outside blur mode or for a folder without media.
PreviewAfterSelection(accepted, sel) ==
    IF accepted /\ mode_var = "blur" /\ get_files_to_process(sel) # <<>>
    THEN \E size \in PreviewSources :
            blur_preview' = BlurPreview(size[1], size[2], 0, 0, 50, 50)
    ELSE UNCHANGED blur_preview

\* "Select Folder": askdirectory, then select_folder.
SelectFolder ==
    /\ \E path \in Dirs \cup {NoFolder} :
        LET sel == select_folder(path, CurrentSelection)
        IN  /\ Selected(sel)
            /\ last_dialog' = IF path = NoFolder THEN "cancelled" ELSE "accepted"
            /\ last_accepted' = IF path = NoFolder THEN last_accepted
                                ELSE [fn |-> "select_folder", path |-> path]
            /\ PreviewAfterSelection(path # NoFolder, sel)
    /\ UNCHANGED <<mode_var, packed>>
    /\ UNCHANGED <<audio_enabled, dual_audio_enabled, widgets>>
    /\ UNCHANGED workerVars
    /\ UNCHANGED pureVars

\* "Select Files": askopenfilenames, then select_files.
SelectFiles ==
    /\ \E files \in FileDialogResults \cup {<<>>} :
        LET sel == select_files(files, CurrentSelection)
        IN  /\ Selected(sel)
            /\ last_dialog' = IF files = <<>> THEN "cancelled" ELSE "accepted"
            /\ last_accepted' = IF files = <<>> THEN last_accepted
                                ELSE [fn |-> "select_files", files |-> files]
            /\ PreviewAfterSelection(files # <<>>, sel)
    /\ UNCHANGED <<mode_var, packed>>
    /\ UNCHANGED <<audio_enabled, dual_audio_enabled, widgets>>
    /\ UNCHANGED workerVars
    /\ UNCHANGED pureVars

NextPanels ==
    \/ SelectMode
    \/ SelectFolder
    \/ SelectFiles

\* Any sequence of mode changes and file selections.
SpecPanels == Init /\ [][NextPanels]_vars

\* ------------------------------------- functions checked on their own

\* Each action is one call; the record of the call before is gone.

\* add_audio_to_narasi_video aligns a narration of any length to a target.
AttachNarasiAudio ==
    /\ \E track \in AudioTracks, target \in TargetDurations :
        aligned' = [fn |-> "narasi", track |-> track, target |-> target,
                    result |-> AlignNarasiAudio(track, target)]
    /\ text_anchor' = NotPlaced
    /\ audio_handled' = NotHandled
    /\ UNCHANGED workerVars
    /\ UNCHANGED tkVars
    /\ UNCHANGED panelVars

\* handle_gif_audio_processing aligns the background music to the video
\* converted from a GIF.
AttachGifAudio ==
    /\ \E track \in AudioTracks, target \in TargetDurations :
        aligned' = [fn |-> "gif", track |-> track, target |-> target,
                    result |-> AlignGifAudio(track, target)]
    /\ text_anchor' = NotPlaced
    /\ audio_handled' = NotHandled
    /\ UNCHANGED workerVars
    /\ UNCHANGED tkVars
    /\ UNCHANGED panelVars

\* add_text_overlay places the wrapped name of a file on a frame.
PlaceText ==
    /\ \E y_position \in PercentValues, size \in TextSizes,
          lines \in LineCounts :
        text_anchor' = [lines |-> lines, size |-> size,
                        y_position |-> y_position,
                        base_y |-> base_y(y_position, lines, size)]
    /\ aligned' = NotAligned
    /\ audio_handled' = NotHandled
    /\ UNCHANGED workerVars
    /\ UNCHANGED tkVars
    /\ UNCHANGED panelVars

\* handle_audio_processing for the silent video of a video job.
HandleAudio ==
    /\ \E audio \in AudioSettings, mix \in MixResults,
          orig \in OriginalResults, temp_exists \in BOOLEAN,
          copy \in CopyResults :
        audio_handled' =
            [called |-> TRUE, audio |-> audio, mix |-> mix, orig |-> orig,
             temp_exists |-> temp_exists, copy |-> copy,
             ret |-> handle_audio_processing(audio, mix, orig, temp_exists,
                                             copy)]
    /\ aligned' = NotAligned
    /\ text_anchor' = NotPlaced
    /\ UNCHANGED workerVars
    /\ UNCHANGED tkVars
    /\ UNCHANGED panelVars

NextPure ==
    \/ AttachNarasiAudio
    \/ AttachGifAudio
    \/ PlaceText
    \/ HandleAudio

\* Any sequence of calls of the functions above.
SpecPure == Init /\ [][NextPure]_vars

\* ============================================================== claims

\* The narasi job ran its frame loop to the end without an exception.
NarasiCompleted ==
    /\ processing_mode = "narasi"
    /\ pc = "done"
    /\ loopExit \in {"target", "break"}

\* C1 (as stated): for a non-empty source the narasi loop writes exactly
\* round(T * r) frames.
C1_FramesWrittenIsRounded ==
    (NarasiCompleted /\ srcLen > 0)
        => frames_written = RoundHalfEven(target_duration * fps, TDen)

\* C1 (amended): for a non-empty source a narasi loop that ends without an
\* exception has written exactly floor(T * r) frames, the product truncated:
\* frames_written <= T * r < frames_written + 1.
C1_FramesWrittenIsTruncated ==
    (NarasiCompleted /\ srcLen > 0)
        => /\ frames_written * TDen <= target_duration * fps
           /\ target_duration * fps < (frames_written + 1) * TDen

\* A completed job whose T * r has a fractional part above one half.
C1_Witness ==
    /\ NarasiCompleted
    /\ srcLen > 0
    /\ frames_written > 0
    /\ 2 * ((target_duration * fps) % TDen) > TDen

\* C2: the k-th frame written by the narasi loop (0-based) comes from source
\* frame k mod N, so the source is replayed in order from index 0 after
\* every exhaustion.
C2_FramesFollowSourceModuloN ==
    (processing_mode = "narasi" /\ srcLen > 0)
        => \A k \in DOMAIN emitted : emitted[k].src = (k - 1) % srcLen

\* A source of at least two frames that has been restarted.
C2_Witness ==
    /\ processing_mode = "narasi"
    /\ srcLen >= 2
    /\ Len(emitted) > srcLen

\* C3: the narasi loop never writes nor reads more than target_frames
\* frames, and once frames_written equals target_frames the next step leaves
\* the loop without reading or writing.
C3_LoopTruncates ==
    /\ [](processing_mode = "narasi"
            => frames_written <= target_frames /\ reads <= target_frames)
    /\ [][(pc = "narasi_loop" /\ frames_written = target_frames)
            => (pc' # "narasi_loop" /\ reads' = reads
                /\ frames_written' = frames_written /\ pos' = pos)]_vars

\* A job cut in the middle of a source longer than the target.
C3_Witness ==
    /\ NarasiCompleted
    /\ loopExit = "target"
    /\ target_frames > 0
    /\ srcLen > target_frames
    /\ reads = target_frames

\* C4: for a non-empty concatenation the duration of the synchronized video,
\* frames_written / r, differs from T by at most one frame period 1 / r.
C4_DurationWithinOneFrame ==
    (NarasiCompleted /\ srcLen > 0)
        => LET d == frames_written * TDen - target_duration * fps
           IN  d <= TDen /\ -d <= TDen

\* A concatenation shorter than the narration, looped and muxed.
C4_Witness ==
    /\ NarasiCompleted
    /\ srcLen > 0
    /\ srcLen < target_frames
    /\ output = "muxed"

\* C5 (as stated): a job whose source yields no frame on the first read is
\* never counted or reported as successful.
C5_EmptySourceFailsJob ==
    \A j \in DOMAIN results : results[j].empty => results[j].outcome # "success"

\* C6: when the mask built from the template has no key pixel, the worker
\* has stopped with a failure status and no frame has been composited.
C6_EmptyMaskAbortsBeforeCompositing ==
    (mask_built /\ MaskSum(template_mask) = 0)
        => /\ ~composited
           /\ pc = "done"
           /\ status \in {"no_green_screen", "narasi_failed"}

\* A batch with files whose template has no key pixel.
C6_Witness ==
    /\ mask_built
    /\ MaskSum(template_mask) = 0
    /\ Total > 0
    /\ pc = "done"

\* C7 (as stated): every mask handed to the chroma-key compositor has at
\* least one key pixel, the per-frame masks of an animated template included.
C7_EveryMaskHasKeyPixel ==
    \A k \in DOMAIN emitted : emitted[k].keyed => emitted[k].keys > 0

\* C8: every frame written has the canvas size, 1080 x 1920.
C8_WrittenFramesHaveCanvasSize ==
    \A k \in DOMAIN emitted : emitted[k].size = <<1080, 1920>>

\* A written frame of a source that is not canvas-sized, with text overlay.
C8_Witness ==
    /\ Len(emitted) > 0
    /\ srcSize # <<1080, 1920>>
    /\ emitted[1].text

\* C9 (as stated): when adding the narration audio raises, the narasi job
\* still ends as successful.
C9_AudioFailureKeepsJobSuccessful ==
    (pc = "done" /\ audio_raised) => status = "narasi_done"

\* C10: in a green-screen/blur batch the jobs are attempted once each, in
\* list order, and the loop has attempted exactly the jobs it has left
\* behind, whatever their outcome; the summary is written after all of them.
C10_EveryJobAttemptedInOrder ==
    processing_mode # "narasi"
        => /\ \A k \in DOMAIN attempted : attempted[k] = k
           /\ pc = "jobs" => Len(attempted) = i
           /\ status = "summary" => Len(attempted) = Total

\* A batch of two whose first job raised and whose second was attempted.
C10_Witness ==
    /\ status = "summary"
    /\ Len(results) = 2
    /\ results[1].outcome = "exception"
    /\ attempted = <<1, 2>>

\* C11 (as stated): a batch that has processed its jobs reports
\* successful/total where total is the number of jobs and successful is the
\* number of jobs in which no stage failed, with 0 <= successful <= total.
C11_SuccessfulCountsJobsWithoutFailure ==
    status = "summary"
        => /\ Len(results) = Total
           /\ successful_files
                = Cardinality({j \in DOMAIN results : ~results[j].stageFailed})
           /\ 0 <= successful_files
           /\ successful_files <= Total

\* C12: get_gpu_video_writer makes its attempts strictly in list order; a
\* writer that did not open has been released when the next attempt is
\* made; the first attempt whose writer opens ends the search, so nothing
\* is tried after it and its writer is the one returned.
C12_EncodersTriedInOrderFirstOpenWins ==
    /\ \A j \in DOMAIN tried : tried[j] = j
    /\ held = {}
    /\ \A k \in openedBy :
        /\ k = tried[Len(tried)]
        /\ pc = "writer_done"
        /\ outIsOpened
    /\ pc = "writer_done" => (outIsOpened <=> openedBy # {})

\* The first entry of the list failed and the second one opened.
C12_Witness ==
    /\ pc = "writer_done"
    /\ tried = <<1, 2>>
    /\ openedBy = {2}
    /\ 2 \in FourccOptions

\* C13 (as stated): when no attempt of get_gpu_video_writer opened a writer,
\* the job fails: no frame is written to the unopened writer and the job is
\* not counted as successful.
C13_UnopenedWriterFailsJob ==
    /\ []((pc \in {"video_loop", "gif_loop"} /\ ~outIsOpened)
            => frames_written = 0)
    /\ [][(pc \in {"video_loop", "gif_loop"} /\ ~outIsOpened)
            => successful_files' = successful_files]_vars

\* C14 (as stated): when a job has ended, on success and on every failure
\* path, none of its temporary files remains: neither the '_temp.mp4' file
\* of a green-screen/blur/GIF job nor the temporary directory of the narasi
\* job.
C14_NoTempFileAfterJob ==
    pc \in {"jobs", "done"} => (~temp_output /\ ~temp_dir)

\* C15 (as stated): between two jobs and after the last one, no VideoCapture
\* and no VideoWriter opened for a job is still held, whatever path the job
\* took.
C15_HandlesReleasedBetweenJobs ==
    pc \in {"jobs", "done"} => (~capOpen /\ ~outOpen)

\* C16 (as stated): at any time at most one worker thread is running and
\* at most one job is in progress, however often "Start Processing" is
\* pressed.
C16_AtMostOneWorkerAndJob ==
    /\ ~(WorkerRunning /\ other_thread \in {"validating", "job"})
    /\ ~(WorkerInJob /\ other_thread = "job")

\* The reports that carry the name of a file.
JobReports == {k \in DOMAIN progress : progress[k].name > 0}

C18_AtMostOneAudioModeActive ==
    /\ ~(audio_enabled /\ dual_audio_enabled)
    /\ ~(get_audio_settings.enabled /\ get_audio_settings.dual_audio_enabled)

\* The checkbox handler has run and left dual audio on, background-only
\* off and all three widgets enabled.
C18_Witness ==
    /\ dual_audio_enabled
    /\ ~audio_enabled
    /\ widgets["original_volume_scale"] = "normal"

\* A job has started or is about to: validation has let the worker through.
PastValidation == WorkerRunning \/ attempted # <<>> \/ results # <<>>

\* The statuses a failed validation ends with.
ValidationFailures ==
    {"no_files", "no_template", "no_narasi_audio", "error", "no_green_screen",
     "no_audio_folder", "no_audio_files"}

\* C19 (as stated): no job starts unless at least one file is selected,
\* green-screen and narasi have a template, narasi has a narration audio
\* file and, when background music or dual audio is enabled, an audio folder
\* holding at least one audio file is selected; a failed check ends the
\* batch with a message and no job processed.
C19_NoJobWithoutValidation ==
    /\ PastValidation
        => /\ Total >= 1
           /\ processing_mode \in {"greenscreen", "narasi"} => has_template
           /\ processing_mode = "narasi" => narasi_audio
           /\ (audio_settings.enabled \/ audio_settings.dual_audio_enabled)
                => audio_settings.folder_path = "files"
    /\ status \in ValidationFailures
        => (pc = "done" /\ attempted = <<>> /\ results = <<>>
            /\ progress = <<>>)

\* C19 (amended): as stated, but the audio folder is required only in
\* green-screen and blur mode; narasi mode does not look at the background
\* music settings.
C19_NoJobWithoutModeValidation ==
    /\ PastValidation
        => /\ Total >= 1
           /\ processing_mode \in {"greenscreen", "narasi"} => has_template
           /\ processing_mode = "narasi" => narasi_audio
           /\ (processing_mode # "narasi"
               /\ (audio_settings.enabled \/ audio_settings.dual_audio_enabled))
                => audio_settings.folder_path = "files"
    /\ status \in ValidationFailures
        => (pc = "done" /\ attempted = <<>> /\ results = <<>>
            /\ progress = <<>>)

\* A green-screen job running with dual audio and a folder of audio files.
C19_Witness ==
    /\ pc = "video_loop"
    /\ processing_mode = "greenscreen"
    /\ has_template
    /\ audio_settings.dual_audio_enabled
    /\ audio_settings.folder_path = "files"

\* C20 (as stated): for any source frame size, crops in [0, 40] and
\* positions in [0, 100], the inset the blur composition places lies fully
\* inside the canvas on both axes: 0 <= offset and
\* offset + inset_dim <= canvas_dim.
C20_InsetInsideCanvas ==
    blur_preview.shown # "none"
        => /\ 0 <= blur_preview.x_offset
           /\ blur_preview.x_offset + blur_preview.new_width <= preview_width
           /\ 0 <= blur_preview.y_offset
           /\ blur_preview.y_offset + blur_preview.new_height <= preview_height

\* C21: the audio track attached to an output has exactly the target
\* duration: a shorter track is looped from its start, a longer track is
\* cut to its first target ticks, a track of equal length is unchanged.
C21_AudioAlignedToTarget ==
    aligned.fn # "none" =>
        /\ Duration(aligned.result) = aligned.target
        /\ \A k \in DOMAIN aligned.result :
              aligned.result[k] = (k - 1) % Duration(aligned.track)
        /\ Duration(aligned.track) = aligned.target
              => aligned.result = aligned.track

\* handle_gif_audio_processing has cut a track longer than the video.
C21_Witness ==
    /\ aligned.fn = "gif"
    /\ Duration(aligned.track) > aligned.target
    /\ aligned.target > 0

C23_TextBlockInsideCanvas ==
    text_anchor.lines > 0 =>
        LET block_height == total_text_height(text_anchor.lines, text_anchor.size)
        IN  /\ text_anchor.base_y >= 20
            /\ text_anchor.base_y <= FRAME_HEIGHT - block_height - 20

\* C24: the audio of a job is handled only after the writer of the job's
\* silent video has been released, in every mode and on every path, also
\* after an exception in the frame loop.
C24_AudioAfterWriterReleased == ~audio_on_open_writer

\* A video job whose frame loop raised has released its writer and has had
\* its audio handled.
C24_Witness ==
    /\ pc = "jobs"
    /\ loopExit = "raise"
    /\ results # <<>>
    /\ results[Len(results)].outcome = "success"
    /\ output = "original"
    /\ ~outOpen

\* A step of the last call of handle_audio_processing raised.
StepRaised ==
    LET h == audio_handled
    IN  \/ /\ h.ret.steps # <<>>
           /\ h.ret.steps[1] \in {"dual", "background"}
           /\ h.mix = "raise"
        \/ /\ \E k \in DOMAIN h.ret.steps : h.ret.steps[k] = "original"
           /\ h.orig = "raise"

\* The last call of handle_audio_processing did not raise to its caller and
\* dropped the background track in the fixed order: with dual audio or
\* background music asked for, a folder that is missing or has no music
\* file leads straight to the original audio, a mix that returns False is
\* followed by the original audio, and a mix that returns True ends the
\* call.
DropsTracksInOrder ==
    LET h == audio_handled
        asked == h.audio.dual_audio_enabled \/ h.audio.enabled
        step == IF h.audio.dual_audio_enabled THEN "dual" ELSE "background"
        found == asked /\ h.audio.folder_path = "files"
    IN  /\ ~h.ret.raised
        /\ ~found => /\ h.ret.steps # <<>>
                      /\ h.ret.steps[1] = "original"
                      /\ h.orig = "done" => h.ret = [steps |-> <<"original">>,
                                                     output |-> "original",
                                                     raised |-> FALSE]
        /\ found => (h.ret.steps # <<>> /\ h.ret.steps[1] = step)
        /\ (found /\ h.mix = "true")
              => h.ret = [steps |-> <<step>>, output |-> step, raised |-> FALSE]
        /\ (found /\ h.mix = "false")
              => /\ Len(h.ret.steps) >= 2
                 /\ h.ret.steps[2] = "original"
                 /\ h.orig = "done" => h.ret = [steps |-> <<step, "original">>,
                                                output |-> "original",
                                                raised |-> FALSE]

SectionsOfMode(mode) ==
    CASE mode = "greenscreen" -> {"template_section", "text_frame"}
      [] mode = "blur" -> {"blur_frame"}
      [] OTHER -> {"template_section", "narasi_section", "narasi_text_frame"}

\* C26: after any sequence of mode changes exactly the settings sections
\* of the current mode are visible, whatever the mode before: green-screen
\* text settings only in green-screen mode, blur settings only in blur
\* mode, narasi section and narasi text settings only in narasi mode, the
\* template section in green-screen and narasi mode only.
C26_ExactlySectionsOfModeVisible ==
    \A w \in {"template_section", "text_frame", "blur_frame",
              "narasi_section", "narasi_text_frame"} :
        packed[w] <=> w \in SectionsOfMode(mode_var)

\* C27: after any sequence of audio-mode handlers the audio-folder button
\* and the background-volume slider are enabled exactly when
\* background-only or dual audio is active, and the original-volume slider
\* exactly when dual audio is active.
C27_AudioWidgetsFollowMode ==
    /\ widgets["select_audio_folder_btn"] = "normal"
          <=> (audio_enabled \/ dual_audio_enabled)
    /\ widgets["background_volume_scale"] = "normal"
          <=> (audio_enabled \/ dual_audio_enabled)
    /\ widgets["original_volume_scale"] = "normal" <=> dual_audio_enabled
    /\ \A x \in AudioWidgets : widgets[x] \in {"normal", "disabled"}

\* Background-only is active: the radio handler has enabled the button and
\* the background slider and disabled the original slider.
C27_Witness ==
    /\ audio_enabled
    /\ ~dual_audio_enabled
    /\ widgets["background_volume_scale"] = "normal"
    /\ widgets["original_volume_scale"] = "disabled"


\* What get_files_to_process may return after the last accepted dialog.
FilesOfLastAccepted ==
    CASE last_accepted.fn = "select_files" -> last_accepted.files
      [] last_accepted.fn = "select_folder" ->
            get_video_files(last_accepted.path) \o get_gif_files(last_accepted.path)
      [] OTHER -> <<>>

\* The fields agree with the last accepted dialog.
SelectionFollowsLastAccepted ==
    /\ ~(folder_path # NoFolder /\ selected_files # <<>>)
    /\ is_single_file_mode <=> (last_accepted.fn = "select_files")
    /\ get_files_to_process(CurrentSelection) = FilesOfLastAccepted

\* C28: after any sequence of select_folder and select_files, a cancelled
\* dialog has changed nothing, folder_path and selected_files are never both
\* non-empty, is_single_file_mode holds exactly when the last accepted
\* dialog was select_files, and get_files_to_process returns the files of
\* that last accepted selection only.
C28_SelectionFollowsLastAccepted ==
    /\ []SelectionFollowsLastAccepted
    /\ [][last_dialog' = "cancelled" =>
            UNCHANGED <<folder_path, selected_files, is_single_file_mode,
                        blur_preview, last_accepted>>]_vars

\* Files were selected after a folder, and the last dialog was cancelled.
C28_Witness ==
    /\ last_dialog = "cancelled"
    /\ last_accepted.fn = "select_files"
    /\ Len(selected_files) >= 2
    /\ is_single_file_mode
    /\ folder_path = NoFolder


\* C29: distinct jobs of one batch write to distinct output files: no job's
\* output path equals the output path of another job of the same batch.
C29_DistinctJobsDistinctOutputs ==
    LET files == get_files_to_process(CurrentSelection)
    IN  \A a, b \in DOMAIN files :
            a # b => output_path(files, a) # output_path(files, b)


\* The statuses process_thread may leave behind: a validation message, the
\* completion summary of a batch or of narasi mode, an error message.
TerminalStatuses ==
    ValidationFailures \cup {"summary", "narasi_done", "narasi_failed",
                             "error_narasi"}

\* process_thread has returned and the last status written is terminal.
Terminated == pc = "done" /\ status \in TerminalStatuses

\* C30: every invocation of process_videos_bulk eventually terminates with
\* a terminal status as the last status written, given that every call into
\* the media libraries returns: the frame loops end and no path through the
\* worker ends with an in-progress status.
C30_WorkerTerminates ==
    /\ (pc # "idle") ~> Terminated
    /\ [](pc = "done" => status \in TerminalStatuses)

\* A narasi run has ended after its loop restarted the source, and a batch
\* has ended after a frame loop ran.
C30_Witness ==
    /\ Terminated
    /\ \/ status = "narasi_failed" /\ frames_written > srcLen /\ srcLen > 0
       \/ status = "summary" /\ reads > 1 /\ Len(results) >= 2

====
